---- MODULE Spec2Model ----
(***************************************************************************)
(* Model of uvector::UVec (src/src/lib.rs): a read-only view presenting    *)
(* two slices as one vector, with indexed access, sub-range derivation and *)
(* an iterator.  Slices are sequences (1-based in TLA+, 0-based in the     *)
(* code); a panic is the result Panic.                                    *)
(***************************************************************************)
EXTENDS Integers, Sequences, FiniteSets

\* ---- bounds ----
MaxSeg == 3      \* longest slice handed to UVec::new
MaxExtra == 2    \* calls of next made after the first exhaustion signal

\* The code never inspects an element, so the two slices hold pairwise
\* distinct values: every element names the place it was borrowed from.
Buf(lo, n) == [j \in 1..n |-> lo + j]
Args == 0..(2 * MaxSeg + 1)
ProbeArgs == {0, 1, 2 * MaxSeg}
Iters == {1, 2}
SoloIters == {1}

\* ---- results of calls ----
NoCall == [kind |-> "nocall"]
Panic == [kind |-> "panic"]
None == [kind |-> "none"]
Some(x) == [kind |-> "some", val |-> x]
NoIter == [kind |-> "noiter"]

\* ---- slices: &s[i] and &s[a..b] ----
at(s, i) == IF i < Len(s) THEN Some(s[i + 1]) ELSE Panic

SliceOk(s, a, b) == a <= b /\ b <= Len(s)

Slice(s, a, b) == SubSeq(s, a + 1, b)

\* ---- UVec ----
new(s) == [s |-> s]

empty == new(<< <<>>, <<>> >>)

len(v) == Len(v.s[1]) + Len(v.s[2])

iter(v) == [pos |-> 0, s |-> v.s]

into_iter(v) == [pos |-> 0, s |-> v.s]

into_iter_ref(v) == iter(v)

range_unclamped(v, start, end) ==
    LET len1 == Len(v.s[1])
        start1 == start
        end1 == IF end < len1 THEN end ELSE len1
        start2 == IF start < len1 THEN 0 ELSE start - len1
        end2 == IF end < len1 THEN 0 ELSE end - len1
    IN  IF SliceOk(v.s[1], start1, end1) /\ SliceOk(v.s[2], start2, end2)
        THEN Some(new(<<Slice(v.s[1], start1, end1), Slice(v.s[2], start2, end2)>>))
        ELSE Panic

range_saturating(v, start, end) ==
    LET len1 == Len(v.s[1])
        len2 == Len(v.s[2])
        start1 == IF start < len1 THEN start ELSE len1
        end1 == IF end < len1 THEN end ELSE len1
        start2 == IF start < len1 THEN 0 ELSE IF start - len1 < len2 THEN start - len1 ELSE len2
        end2 == IF end < len1 THEN 0 ELSE IF end - len1 < len2 THEN end - len1 ELSE len2
    IN  IF SliceOk(v.s[1], start1, end1) /\ SliceOk(v.s[2], start2, end2)
        THEN Some(new(<<Slice(v.s[1], start1, end1), Slice(v.s[2], start2, end2)>>))
        ELSE Panic

range_seam(v, start, end) ==
    LET len1 == Len(v.s[1])
        start1 == IF start < len1 THEN start ELSE len1
        end1 == IF end < len1 THEN end ELSE len1
        start2 == 0
        end2 == IF end < len1 THEN 0 ELSE end - len1
    IN  IF SliceOk(v.s[1], start1, end1) /\ SliceOk(v.s[2], start2, end2)
        THEN Some(new(<<Slice(v.s[1], start1, end1), Slice(v.s[2], start2, end2)>>))
        ELSE Panic

range_nosub(v, start, end) ==
    LET len1 == Len(v.s[1])
        start1 == IF start < len1 THEN start ELSE len1
        end1 == IF end < len1 THEN end ELSE len1
        start2 == IF start < len1 THEN 0 ELSE start
        end2 == IF end < len1 THEN 0 ELSE end - len1
    IN  IF SliceOk(v.s[1], start1, end1) /\ SliceOk(v.s[2], start2, end2)
        THEN Some(new(<<Slice(v.s[1], start1, end1), Slice(v.s[2], start2, end2)>>))
        ELSE Panic

range(v, start, end) ==
    LET len1 == Len(v.s[1])
        start1 == IF start < len1 THEN start ELSE len1
        end1 == IF end < len1 THEN end ELSE len1
        start2 == IF start < len1 THEN 0 ELSE start - len1
        end2 == IF end < len1 THEN 0 ELSE end - len1
    IN  IF SliceOk(v.s[1], start1, end1) /\ SliceOk(v.s[2], start2, end2)
        THEN Some(new(<<Slice(v.s[1], start1, end1), Slice(v.s[2], start2, end2)>>))
        ELSE Panic

index_le(v, i) ==
    LET l == Len(v.s[1])
    IN  IF i <= l THEN at(v.s[1], i) ELSE at(v.s[2], i - l)

index_wrap(v, i) ==
    LET l == Len(v.s[1])
    IN  IF i < l THEN at(v.s[1], i)
        ELSE IF i - l < Len(v.s[2]) \/ l = 0 THEN at(v.s[2], i - l)
        ELSE at(v.s[1], l - 1)

index(v, i) ==
    LET l == Len(v.s[1])
    IN  IF i < l THEN at(v.s[1], i) ELSE at(v.s[2], i - l)

\* ---- Iter ----
\* next returns the advanced iterator and the Option it yields
next_rewind(i) ==
    LET len1 == Len(i.s[1])
        pos == i.pos
    IN  IF pos < len1
        THEN [it |-> [i EXCEPT !.pos = pos + 1], ret |-> at(i.s[1], pos)]
        ELSE LET len2 == Len(i.s[2])
             IN  IF pos < len1 + len2
                 THEN [it |-> [i EXCEPT !.pos = pos + 1], ret |-> at(i.s[2], pos - len1)]
                 ELSE [it |-> [i EXCEPT !.pos = 0], ret |-> None]

next_skip(i) ==
    LET len1 == Len(i.s[1])
        pos == i.pos
    IN  IF pos < len1
        THEN [it |-> [i EXCEPT !.pos = pos + 1], ret |-> at(i.s[1], pos)]
        ELSE LET len2 == Len(i.s[2])
             IN  IF pos < len1 + len2
                 THEN [it |-> [i EXCEPT !.pos = pos + 1], ret |-> at(i.s[2], pos)]
                 ELSE [it |-> i, ret |-> None]

next_stuck(i) ==
    LET len1 == Len(i.s[1])
        pos == i.pos
    IN  IF pos < len1
        THEN [it |-> [i EXCEPT !.pos = pos + 1], ret |-> at(i.s[1], pos)]
        ELSE LET len2 == Len(i.s[2])
             IN  IF pos < len1 + len2
                 THEN [it |-> i, ret |-> at(i.s[2], pos - len1)]
                 ELSE [it |-> i, ret |-> None]

next(i) ==
    LET len1 == Len(i.s[1])
        pos == i.pos
    IN  IF pos < len1
        THEN [it |-> [i EXCEPT !.pos = pos + 1], ret |-> at(i.s[1], pos)]
        ELSE LET len2 == Len(i.s[2])
             IN  IF pos < len1 + len2
                 THEN [it |-> [i EXCEPT !.pos = pos + 1], ret |-> at(i.s[2], pos - len1)]
                 ELSE [it |-> i, ret |-> None]

\* ---- state ----
VARIABLES
    uv,     \* the view built by UVec::new
    acc,    \* last indexed access uv[index]: its argument and result
    sub,    \* last call sub = uv.range(start, end): arguments and result
    sub2,   \* last call sub2 = sub.range(start, end) on the current sub
    it,     \* the iterators
    trace   \* per iterator: the view it was made from and what next returned

vars == <<uv, acc, sub, sub2, it, trace>>

NoTrace == [of |-> empty, out |-> <<>>, last |-> NoCall, calls |-> 0, first_none |-> 0]

Init ==
    /\ uv \in {new(<<Buf(0, n), Buf(n, m)>>) : n, m \in 0..MaxSeg} \cup {empty}
    /\ acc = NoCall
    /\ sub = NoCall
    /\ sub2 = NoCall
    /\ it = [k \in Iters |-> NoIter]
    /\ trace = [k \in Iters |-> NoTrace]

\* let r = uv[index]
CallIndex(i) ==
    /\ acc' = [index |-> i, res |-> index(uv, i)]
    /\ UNCHANGED <<uv, sub, sub2, it, trace>>

\* let sub = uv.range(start, end); a view derived from the old sub is dropped
CallRange(start, end) ==
    /\ sub' = [start |-> start, end |-> end, res |-> range(uv, start, end)]
    /\ sub2' = NoCall
    /\ UNCHANGED <<uv, acc, it, trace>>

\* let sub2 = sub.range(start, end)
CallSubRange(start, end) ==
    /\ sub # NoCall
    /\ sub.res.kind = "some"
    /\ sub2' = [start |-> start, end |-> end, res |-> range(sub.res.val, start, end)]
    /\ UNCHANGED <<uv, acc, sub, it, trace>>

Started(v) == [of |-> v, out |-> <<>>, last |-> NoCall, calls |-> 0, first_none |-> 0]

\* let it = uv.iter()   (also: (&uv).into_iter())
CallIter(k) ==
    /\ it' = [it EXCEPT ![k] = into_iter_ref(uv)]
    /\ trace' = [trace EXCEPT ![k] = Started(uv)]
    /\ UNCHANGED <<uv, acc, sub, sub2>>

\* for x in uv.range(start, end): the derived view is moved into the
\* iterator; when range panics no iterator is made
CallRangeIter(k, start, end) ==
    /\ LET r == range(uv, start, end)
       IN  IF r.kind = "some"
           THEN /\ it' = [it EXCEPT ![k] = into_iter(r.val)]
                /\ trace' = [trace EXCEPT ![k] = Started(r.val)]
           ELSE /\ it' = [it EXCEPT ![k] = NoIter]
                /\ trace' = [trace EXCEPT ![k] = NoTrace]
    /\ UNCHANGED <<uv, acc, sub, sub2>>

\* it.next() on a cursor shared by all live iterators
CallNext_shared(k) ==
    /\ it[k] # NoIter
    /\ trace[k].calls < len(trace[k].of) + 1 + MaxExtra
    /\ LET r == next(it[k])
           t == trace[k]
       IN  /\ it' = [j \in Iters |-> IF it[j] # NoIter THEN r.it ELSE it[j]]
           /\ trace' = [trace EXCEPT ![k] =
                 [of |-> t.of,
                  out |-> IF r.ret.kind = "some" THEN Append(t.out, r.ret.val) ELSE t.out,
                  last |-> r.ret,
                  calls |-> t.calls + 1,
                  first_none |-> IF r.ret = None /\ t.first_none = 0
                                 THEN t.calls + 1 ELSE t.first_none]]
    /\ UNCHANGED <<uv, acc, sub, sub2>>

\* it.next()
CallNext(k) ==
    /\ it[k] # NoIter
    /\ trace[k].calls < len(trace[k].of) + 1 + MaxExtra
    /\ LET r == next(it[k])
           t == trace[k]
       IN  /\ it' = [it EXCEPT ![k] = r.it]
           /\ trace' = [trace EXCEPT ![k] =
                 [of |-> t.of,
                  out |-> IF r.ret.kind = "some" THEN Append(t.out, r.ret.val) ELSE t.out,
                  last |-> r.ret,
                  calls |-> t.calls + 1,
                  first_none |-> IF r.ret = None /\ t.first_none = 0
                                 THEN t.calls + 1 ELSE t.first_none]]
    /\ UNCHANGED <<uv, acc, sub, sub2>>

\* indexed access alone
NextIndex == \E i \in Args : CallIndex(i)

SpecIndex == Init /\ [][NextIndex]_vars

\* range and range of a range
NextRange ==
    \/ \E start, end \in Args : CallRange(start, end)
    \/ \E start, end \in Args : CallSubRange(start, end)

SpecRange == Init /\ [][NextRange]_vars

\* one iterator over the view or over a derived view
NextIter ==
    \/ \E k \in SoloIters : CallIter(k)
    \/ \E k \in SoloIters : \E start, end \in Args : CallRangeIter(k, start, end)
    \/ \E k \in SoloIters : CallNext(k)

SpecIter == Init /\ [][NextIter]_vars

\* two iterators interleaved with the other operations on the same view
Next ==
    \/ \E k \in Iters : CallIter(k)
    \/ \E k \in Iters : CallNext(k)
    \/ \E i \in ProbeArgs : CallIndex(i)
    \/ \E start, end \in ProbeArgs : CallRange(start, end)

Spec == Init /\ [][Next]_vars

\* ---- properties ----
\* the logical elements of a view: segment 1 followed by segment 2
Elems(v) == v.s[1] \o v.s[2]

Prefix(s, n) == SubSeq(s, 1, n)

Min(a, b) == IF a < b THEN a ELSE b

\* C1: for every index i < len(first) + len(second), view[i] succeeds and is
\* first[i] when i < len(first) and second[i - len(first)] otherwise.
IndexMaps ==
    (acc # NoCall /\ acc.index < len(uv)) =>
        acc.res = IF acc.index < Len(uv.s[1])
                  THEN Some(uv.s[1][acc.index + 1])
                  ELSE Some(uv.s[2][acc.index - Len(uv.s[1]) + 1])

IndexAtSeam ==
    /\ acc # NoCall
    /\ uv.s[1] # <<>>
    /\ acc.index = Len(uv.s[1])
    /\ acc.index < len(uv)
    /\ acc.res.kind = "some"

\* C4: for every index i >= len(), view[i] panics and returns no element.
IndexOutOfRangePanics ==
    (acc # NoCall /\ acc.index >= len(uv)) => acc.res = Panic

IndexAtLenSecondEmpty ==
    /\ acc # NoCall
    /\ uv.s[1] # <<>>
    /\ uv.s[2] = <<>>
    /\ acc.index = len(uv)
    /\ acc.res = Panic

ValidRange(v, c) == c.start <= c.end /\ c.end <= len(v)

RangeHolds(v, c) ==
    ValidRange(v, c) =>
        /\ c.res.kind = "some"
        /\ len(c.res.val) = c.end - c.start
        /\ \A j \in 0..(c.end - c.start - 1) :
              /\ index(c.res.val, j).kind = "some"
              /\ index(c.res.val, j).val = Elems(v)[c.start + j + 1]

\* C2: for every valid range 0 <= a <= b <= len(), range(a, b) succeeds and
\* returns a view of length b - a whose element j is the original's element
\* a + j, for the view built by new and for a view returned by range.
RangeSelects ==
    /\ sub # NoCall => RangeHolds(uv, sub)
    /\ sub2 # NoCall => RangeHolds(sub.res.val, sub2)

RangeStraddles ==
    /\ sub # NoCall
    /\ 0 < sub.start
    /\ sub.start < Len(uv.s[1])
    /\ Len(uv.s[1]) < sub.end
    /\ sub.end < len(uv)
    /\ sub.res.kind = "some"
    /\ sub2 # NoCall
    /\ Len(sub.res.val.s[1]) <= sub2.start
    /\ sub2.start < sub2.end
    /\ sub2.res.kind = "some"

RangePanics(v, c) ==
    (c.start > c.end \/ c.end > len(v)) => c.res = Panic

\* C3: for every (start, end) with start > end or end > len(), range panics
\* and returns no view.
RangeInvalidPanics ==
    /\ sub # NoCall => RangePanics(uv, sub)
    /\ sub2 # NoCall => RangePanics(sub.res.val, sub2)

RangeInvalidBeyondSeam ==
    /\ sub # NoCall
    /\ uv.s[1] # <<>>
    /\ sub.start > sub.end
    /\ sub.end >= Len(uv.s[1])
    /\ sub.start <= len(uv)
    /\ sub.res = Panic

RangeEmptyHolds(v, c) ==
    (c.start = c.end /\ c.end <= len(v)) =>
        /\ c.res.kind = "some"
        /\ Len(c.res.val.s[1]) = 0
        /\ Len(c.res.val.s[2]) = 0
        /\ len(c.res.val) = 0

\* C5: for every k in [0, len()], range(k, k) does not panic and returns a
\* view whose two segments both have length 0.
RangeEmpty ==
    /\ sub # NoCall => RangeEmptyHolds(uv, sub)
    /\ sub2 # NoCall => RangeEmptyHolds(sub.res.val, sub2)

RangeEmptyPastSeam ==
    /\ sub # NoCall
    /\ uv.s[1] # <<>>
    /\ sub.start = sub.end
    /\ sub.start > Len(uv.s[1])
    /\ sub.start <= len(uv)
    /\ sub.res.kind = "some"

\* C9: for 0 <= a <= b <= len() and 0 <= c <= d <= b - a,
\* v.range(a, b).range(c, d) does not panic and has the elements and the
\* length d - c of v.range(a + c, a + d).
RangeComposes ==
    (/\ sub # NoCall
     /\ sub2 # NoCall
     /\ ValidRange(uv, sub)
     /\ sub2.start <= sub2.end
     /\ sub2.end <= sub.end - sub.start) =>
        LET direct == range(uv, sub.start + sub2.start, sub.start + sub2.end)
        IN  /\ sub2.res.kind = "some"
            /\ direct.kind = "some"
            /\ len(sub2.res.val) = sub2.end - sub2.start
            /\ len(direct.val) = sub2.end - sub2.start
            /\ Elems(sub2.res.val) = Elems(direct.val)

RangeComposesAcrossSeams ==
    /\ sub # NoCall
    /\ sub2 # NoCall
    /\ 0 < sub.start
    /\ sub.start < Len(uv.s[1])
    /\ Len(uv.s[1]) < sub.end
    /\ sub.res.kind = "some"
    /\ 0 < sub2.start
    /\ sub2.start < Len(sub.res.val.s[1])
    /\ Len(sub.res.val.s[1]) < sub2.end
    /\ sub2.res.kind = "some"

\* C6: a fresh iterator advanced until it first returns None yields exactly
\* len() elements, segment 1 in order then segment 2 in order, the j-th
\* equal to view[j]; the first None comes on call number len() + 1.
IterYieldsView ==
    \A k \in Iters :
        it[k] # NoIter =>
            LET t == trace[k]
            IN  /\ t.out = Prefix(Elems(t.of), Len(t.out))
                /\ Len(t.out) = Min(t.calls, len(t.of))
                /\ \A j \in 1..Len(t.out) : index(t.of, j - 1) = Some(t.out[j])
                /\ t.first_none # 0 =>
                      /\ t.first_none = len(t.of) + 1
                      /\ t.out = t.of.s[1] \o t.of.s[2]
                /\ t.calls > len(t.of) => t.first_none # 0

IterExhaustedDerived ==
    \E k \in Iters :
        /\ it[k] # NoIter
        /\ trace[k].of # uv
        /\ trace[k].of.s[1] # <<>>
        /\ trace[k].of.s[2] # <<>>
        /\ trace[k].first_none = len(trace[k].of) + 1
        /\ Len(trace[k].out) = len(trace[k].of)

\* a step in which next was called on iterator k
NextCalled(k) ==
    /\ it[k] # NoIter
    /\ it'[k] # NoIter
    /\ trace'[k].calls = trace[k].calls + 1

\* C7: once next has returned None, every later call of next returns None,
\* raises no error and leaves the position unchanged.
ExhaustedStays ==
    [][\A k \in Iters :
          (NextCalled(k) /\ trace[k].last = None) =>
              /\ trace'[k].last = None
              /\ it'[k].pos = it[k].pos]_vars

PolledAfterExhaustion ==
    \E k \in Iters :
        /\ it[k] # NoIter
        /\ len(trace[k].of) > 0
        /\ trace[k].last = None
        /\ trace[k].calls >= len(trace[k].of) + 2

PosInBounds ==
    \A k \in Iters :
        it[k] # NoIter =>
            /\ 0 <= it[k].pos
            /\ it[k].pos <= Len(it[k].s[1]) + Len(it[k].s[2])
            /\ it[k].pos = Len(trace[k].out)

PosStep ==
    \A k \in Iters :
        NextCalled(k) =>
            /\ it'[k].pos >= it[k].pos
            /\ trace'[k].last.kind = "some" => it'[k].pos = it[k].pos + 1
            /\ trace'[k].last.kind # "some" => it'[k].pos = it[k].pos

\* C10: in every state of an iterator 0 <= pos <= len(first) + len(second)
\* and pos is the number of elements yielded so far; pos never decreases and
\* grows by exactly 1 on each call that yields an element.
PosCounts == []PosInBounds /\ [][PosStep]_vars

PosInSecondSegment ==
    \E k \in Iters :
        /\ it[k] # NoIter
        /\ it[k].s[1] # <<>>
        /\ it[k].pos > Len(it[k].s[1]) + 1
        /\ it[k].pos = Len(trace[k].out)
        /\ trace[k].last.kind = "some"

AloneInv ==
    \A k \in Iters :
        it[k] # NoIter =>
            /\ it[k].s = uv.s
            /\ trace[k].of = uv
            /\ Len(trace[k].out) = Min(trace[k].calls, len(uv))
            /\ trace[k].out = Prefix(Elems(uv), Len(trace[k].out))
            /\ it[k].pos = Len(trace[k].out)
            /\ trace[k].calls = 0 => it[k].pos = 0

AloneStep ==
    /\ uv' = uv
    /\ \A k \in Iters :
          (it'[k] # it[k] \/ trace'[k] # trace[k]) =>
              /\ \A j \in Iters \ {k} : it'[j] = it[j] /\ trace'[j] = trace[j]
              /\ acc' = acc
              /\ sub' = sub
    /\ \A k \in Iters :
          (it'[k] # NoIter /\ trace'[k].calls = 0) =>
              it'[k].pos = 0 /\ trace'[k].out = <<>>

\* C8: under any interleaving of next on two iterators of one view, of
\* iter(), of indexed accesses and of range calls, each iterator yields the
\* sequence it yields when run alone, each iter() starts at position 0, and
\* the view's two segments never change.
IteratorsIndependent == []AloneInv /\ [][AloneStep]_vars

TwoCursorsApart ==
    /\ it[1] # NoIter
    /\ it[2] # NoIter
    /\ len(uv) >= 3
    /\ uv.s[1] # <<>>
    /\ uv.s[2] # <<>>
    /\ it[1].pos = len(uv)
    /\ it[2].pos = 1
    /\ acc # NoCall
    /\ sub # NoCall
====
